---- MODULE Spec2Model ----
(***************************************************************************)
(* Model of zubbi/scraper/tenant_parser.py: the TenantParser class.        *)
(*                                                                         *)
(* Spec     : parse() and its helpers on a constructed instance whose      *)
(*            self.sources is any YAML-loaded list of tenant records.      *)
(* SpecLoad : the constructor in repository mode,                          *)
(*            _load_tenant_sources_from_repo().                            *)
(*                                                                         *)
(* Python values are modelled as tagged records, so that the code's        *)
(* dynamic-typing branches (type(project) is dict, "jobs" not in exclude)  *)
(* are decided the way Python decides them.                                *)
(***************************************************************************)
EXTENDS Integers, Sequences, FiniteSets, TLC

VARIABLES
    sources,      \* self.sources (in SpecLoad: the local list `sources`)
    scrape_time,  \* self.scrape_time
    repo_map,     \* self.repo_map: repository name -> [jobs, roles]
    tenants,      \* self.tenants
    pc,           \* position of the in-flight parse() call, "idle" if none
    i,            \* parse(): 1-based index of tenant_src in self.sources
    c,            \* parse(): 1-based index into github_source.items()
    p,            \* parse(): 1-based index into projects
    tenant,       \* parse(): the local ZuulTenant of the current record
    outcomes,     \* how each parse() call made so far ended
    sources_repo, \* the checkout handed to the constructor (repository mode)
    lpc,          \* position of _load_tenant_sources_from_repo()
    t,            \* loader: 1-based index into tenants.keys()
    checked_out,  \* loader: the paths given to check_out_file(), in order
    warnings,     \* loader: the tenants a LOGGER.warning was written for
    error         \* loader: the message of the exception raised, or NoError

vars == <<sources, scrape_time, repo_map, tenants, pc, i, c, p, tenant,
          outcomes, sources_repo, lpc, t, checked_out, warnings, error>>

parseVars == <<repo_map, tenants, pc, i, c, p, tenant, outcomes>>

loadVars == <<sources_repo, lpc, t, checked_out, warnings, error>>

----------------------------------------------------------------------------
\* Bounds of the model.

\* most tenant records in self.sources
MaxRecords == 2
\* most ProjectRefs under one project type
MaxProjects == 1
\* most parse() calls on one instance
MaxCalls == 2
\* most tenant directories in the checkout's tenants/ folder
MaxDirs == 2

TenantNames == {"foo", "bar"}

RepoNames == {"repo-a", "repo-b"}

ScrapeTimes == {"2018-11-02T10:00:00"}

RepoIds == {"orga/tenant-config"}

----------------------------------------------------------------------------
\* Python values.

Str(s) == [type |-> "str", s |-> s]

NoneV == [type |-> "none"]

List(xs) == [type |-> "list", items |-> xs]

\* a dict is its items in insertion order, each <<key, value>>
Dict(kv) == [type |-> "dict", items |-> kv]

HasKey(d, k) == \E n \in 1..Len(d.items) : d.items[n][1] = k

\* d.get(k, default)
DictGet(d, k, default) ==
    IF HasKey(d, k)
    THEN d.items[CHOOSE n \in 1..Len(d.items) : d.items[n][1] = k][2]
    ELSE default

\* whether `x in v` is defined: it raises TypeError for None
IsContainer(v) == v.type \in {"list", "dict"}

\* `x in v` for a list (its elements) or a dict (its keys)
PyIn(x, v) ==
    IF v.type = "list"
    THEN \E n \in 1..Len(v.items) : v.items[n] = x
    ELSE HasKey(v, x)

\* bool(v) of a value of source.get("github")
Truthy(v) == v.type = "dict" /\ Len(v.items) > 0

\* hashlib.sha1(str.encode(name)).hexdigest()
Sha1Hex(name) ==
    CASE name = "foo" -> "0beec7b5ea3f0fdbc95d0dd47f3c5bc275da8a33"
      [] name = "bar" -> "62cdb7020ff920e5aa642c3d4066950dd1f01f4d"

----------------------------------------------------------------------------
\* The inputs: what yaml.load can hand to parse().

ExcludeValues == {List(<<"jobs">>), List(<<"roles">>), NoneV}

\* "repo", {repo: {exclude: [...]}}, {repo: None, exclude: ...} and {}
ProjectRefs ==
    {Str(r) : r \in RepoNames}
    \cup {Dict(<< <<r, Dict(<< <<"exclude", List(<<"jobs">>)>> >>)>> >>) : r \in RepoNames}
    \cup {Dict(<< <<"repo-a", NoneV>>, <<"exclude", e>> >>) : e \in ExcludeValues}
    \cup {Dict(<<>>)}

SeqsUpTo(S, n) == UNION {[1..m -> S] : m \in 0..n}

ProjectLists == SeqsUpTo(ProjectRefs, MaxProjects)

\* the value under key github: one or both project types, or an empty dict
GithubSources ==
    {Dict(<<>>)}
    \cup {Dict(<< <<"config-project", List(ps)>> >>) : ps \in ProjectLists}
    \cup {Dict(<< <<"config-project", List(ps)>>, <<"untrusted-project", List(qs)>> >>) :
            ps \in ProjectLists, qs \in ProjectLists}

\* the source object, with or without the key github
SourceObjects ==
    {Dict(<<>>)} \cup {Dict(<< <<"github", g>> >>) : g \in GithubSources}

\* {tenant: {name: ..., source: ...}}
TenantSourceRecords ==
    {Dict(<< <<"tenant", Dict(<< <<"name", Str(n)>>, <<"source", s>> >>)>> >>) :
        n \in TenantNames, s \in SourceObjects}

SourceLists == SeqsUpTo(TenantSourceRecords, MaxRecords)

NoTenant == [type |-> "none"]

NoError == <<>>

NoRepo == [type |-> "none"]

----------------------------------------------------------------------------
\* parse() and its helpers.

\* tenant_src["tenant"]["source"]
SourceOf(tenant_src) == DictGet(DictGet(tenant_src, "tenant", NoneV), "source", NoneV)

\* tenant_src["tenant"]["name"]
NameOf(tenant_src) == DictGet(DictGet(tenant_src, "tenant", NoneV), "name", NoneV).s

\* source.get("github")
GithubOf(tenant_src) == DictGet(SourceOf(tenant_src), "github", NoneV)

\* the projects under the c-th project type of a github source
ProjectsAt(github_source, cc) == github_source.items[cc][2].items

\* ZuulTenant(meta={"id": uuid}) with tenant_name and scrape_time set
ZuulTenant(tenant_name, time) ==
    [id |-> Sha1Hex(tenant_name), tenant_name |-> tenant_name, scrape_time |-> time]

\* _extract_project(project): (project_name, exclude), or the exception
ExtractProject(project) ==
    IF project.type = "dict"
    THEN IF Len(project.items) = 0
         THEN [raises |-> "IndexError"]
         ELSE [raises |-> "",
               project_name |-> project.items[1][1],
               exclude |-> DictGet(project, "exclude", List(<<>>))]
    ELSE [raises |-> "", project_name |-> project.s, exclude |-> List(<<>>)]

\* self.repo_map[project_name] = {"jobs": [], "roles": []} in place of setdefault
SetDefaultOverwriting(map, project_name) ==
    [r \in DOMAIN map \cup {project_name} |->
        IF r = project_name THEN [jobs |-> <<>>, roles |-> <<>>] ELSE map[r]]

\* self.repo_map.setdefault(project_name, {"jobs": [], "roles": []})
SetDefault(map, project_name) ==
    IF project_name \in DOMAIN map
    THEN map
    ELSE [r \in DOMAIN map \cup {project_name} |->
            IF r = project_name THEN [jobs |-> <<>>, roles |-> <<>>] ELSE map[r]]

\* list.insert(0, x) in place of list.append(x)
ListPrepend(xs, x) == <<x>> \o xs

\* list.append(x)
ListAppend(xs, x) == Append(xs, x)

\* _update_repo_map with the exclusion applied to roles and not to jobs
UpdateRepoMapSwapped(map, project, tenant_name) ==
    LET ex == ExtractProject(project) IN
    IF ex.raises # ""
    THEN [raises |-> ex.raises, map |-> map]
    ELSE LET m1 == SetDefault(map, ex.project_name)
             n == ex.project_name
         IN  IF ~IsContainer(ex.exclude)
             THEN [raises |-> "TypeError", map |-> m1]
             ELSE LET m2 == IF ~PyIn("jobs", ex.exclude)
                            THEN [m1 EXCEPT ![n].roles = ListAppend(@, tenant_name)]
                            ELSE m1
                  IN  [raises |-> "",
                       map |-> [m2 EXCEPT ![n].jobs = ListAppend(@, tenant_name)]]

\* _update_repo_map with roles consulting the exclusion list as jobs does
UpdateRepoMapRolesExcluded(map, project, tenant_name) ==
    LET ex == ExtractProject(project) IN
    IF ex.raises # ""
    THEN [raises |-> ex.raises, map |-> map]
    ELSE LET m1 == SetDefault(map, ex.project_name)
             n == ex.project_name
         IN  IF ~IsContainer(ex.exclude)
             THEN [raises |-> "TypeError", map |-> m1]
             ELSE LET m2 == IF ~PyIn("jobs", ex.exclude)
                            THEN [m1 EXCEPT ![n].jobs = ListAppend(@, tenant_name)]
                            ELSE m1
                  IN  [raises |-> "",
                       map |-> IF ~PyIn("roles", ex.exclude)
                               THEN [m2 EXCEPT ![n].roles = ListAppend(@, tenant_name)]
                               ELSE m2]

\* _update_repo_map(project, tenant): the map it leaves, and the exception
UpdateRepoMap(map, project, tenant_name) ==
    LET ex == ExtractProject(project) IN
    IF ex.raises # ""
    THEN [raises |-> ex.raises, map |-> map]
    ELSE LET m1 == SetDefault(map, ex.project_name)
             n == ex.project_name
         IN  IF ~IsContainer(ex.exclude)
             THEN [raises |-> "TypeError", map |-> m1]
             ELSE LET m2 == IF ~PyIn("jobs", ex.exclude)
                            THEN [m1 EXCEPT ![n].jobs = ListAppend(@, tenant_name)]
                            ELSE m1
                  IN  [raises |-> "",
                       map |-> [m2 EXCEPT ![n].roles = ListAppend(@, tenant_name)]]

\* the first project type at or after cc that holds a project, 0 if none
FirstType(github_source, cc) ==
    LET live == {k \in cc..Len(github_source.items) : Len(ProjectsAt(github_source, k)) > 0}
    IN  IF live = {} THEN 0 ELSE CHOOSE k \in live : \A m \in live : k <= m

\* return self.repo_map, self.tenants
Return ==
    /\ pc' = "idle"
    /\ outcomes' = Append(outcomes, "returned")
    /\ UNCHANGED <<repo_map, tenants, i, c, p, tenant>>

\* parse() that starts from fresh accumulators
ParseResetting ==
    /\ pc = "idle"
    /\ lpc = "done"
    /\ Len(outcomes) < MaxCalls
    /\ pc' = "for"
    /\ i' = 1
    /\ c' = 0
    /\ p' = 0
    /\ tenant' = NoTenant
    /\ repo_map' = <<>>
    /\ tenants' = <<>>
    /\ UNCHANGED outcomes

\* a call of parse() on the instance: the for loop starts at the first record
Parse ==
    /\ pc = "idle"
    /\ lpc = "done"
    /\ Len(outcomes) < MaxCalls
    /\ pc' = "for"
    /\ i' = 1
    /\ c' = 0
    /\ p' = 0
    /\ tenant' = NoTenant
    /\ UNCHANGED <<repo_map, tenants, outcomes>>

\* the for loop is exhausted
EndOfSources ==
    /\ pc = "for"
    /\ i > Len(sources)
    /\ Return

\* `continue` in place of `break`: the record is skipped, the loop goes on
SkipOnMissing ==
    /\ pc = "for"
    /\ i <= Len(sources)
    /\ ~Truthy(GithubOf(sources[i]))
    /\ i' = i + 1
    /\ UNCHANGED <<repo_map, tenants, pc, c, p, tenant, outcomes>>

\* `if not github_source: break`
BreakOnMissing ==
    /\ pc = "for"
    /\ i <= Len(sources)
    /\ ~Truthy(GithubOf(sources[i]))
    /\ Return

\* the tenant appended to self.tenants as soon as it is built
NextTenantEager ==
    /\ pc = "for"
    /\ i <= Len(sources)
    /\ Truthy(GithubOf(sources[i]))
    /\ tenant' = ZuulTenant(NameOf(sources[i]), scrape_time)
    /\ tenants' = ListAppend(tenants, tenant')
    /\ LET first == FirstType(GithubOf(sources[i]), 1) IN
       /\ c' = first
       /\ p' = IF first = 0 THEN 0 ELSE 1
       /\ pc' = IF first = 0 THEN "append" ELSE "projects"
    /\ UNCHANGED <<repo_map, i, outcomes>>

\* lines 43-56: the record has a github source; build its ZuulTenant
NextTenant ==
    /\ pc = "for"
    /\ i <= Len(sources)
    /\ Truthy(GithubOf(sources[i]))
    /\ tenant' = ZuulTenant(NameOf(sources[i]), scrape_time)
    /\ LET first == FirstType(GithubOf(sources[i]), 1) IN
       /\ c' = first
       /\ p' = IF first = 0 THEN 0 ELSE 1
       /\ pc' = IF first = 0 THEN "append" ELSE "projects"
    /\ UNCHANGED <<repo_map, tenants, i, outcomes>>

\* lines 56-58: self._update_repo_map(project, tenant_name) for the next project
FoldProject ==
    /\ pc = "projects"
    /\ LET github_source == GithubOf(sources[i])
           project == ProjectsAt(github_source, c)[p]
           res == UpdateRepoMap(repo_map, project, NameOf(sources[i]))
           next == FirstType(github_source, c + 1)
       IN  /\ repo_map' = res.map
           /\ IF res.raises # ""
              THEN /\ pc' = "idle"
                   /\ outcomes' = Append(outcomes, "raised")
                   /\ UNCHANGED <<c, p>>
              ELSE /\ outcomes' = outcomes
                   /\ IF p < Len(ProjectsAt(github_source, c))
                      THEN /\ p' = p + 1
                           /\ UNCHANGED <<c, pc>>
                      ELSE IF next # 0
                           THEN /\ c' = next
                                /\ p' = 1
                                /\ pc' = pc
                           ELSE /\ pc' = "append"
                                /\ UNCHANGED <<c, p>>
    /\ UNCHANGED <<tenants, i, tenant>>

\* line 60: self.tenants.append(tenant), then the next record
AppendTenant ==
    /\ pc = "append"
    /\ tenants' = ListAppend(tenants, tenant)
    /\ i' = i + 1
    /\ pc' = "for"
    /\ UNCHANGED <<repo_map, c, p, tenant, outcomes>>

\* __init__ in file mode, after self.sources was loaded
Init ==
    /\ sources \in SourceLists
    /\ scrape_time \in ScrapeTimes
    /\ repo_map = <<>>
    /\ tenants = <<>>
    /\ pc = "idle"
    /\ i = 0
    /\ c = 0
    /\ p = 0
    /\ tenant = NoTenant
    /\ outcomes = <<>>
    /\ sources_repo = NoRepo
    /\ lpc = "done"
    /\ t = 0
    /\ checked_out = <<>>
    /\ warnings = <<>>
    /\ error = NoError

Next ==
    \/ Parse /\ UNCHANGED <<sources, scrape_time>> /\ UNCHANGED loadVars
    \/ EndOfSources /\ UNCHANGED <<sources, scrape_time>> /\ UNCHANGED loadVars
    \/ BreakOnMissing /\ UNCHANGED <<sources, scrape_time>> /\ UNCHANGED loadVars
    \/ NextTenant /\ UNCHANGED <<sources, scrape_time>> /\ UNCHANGED loadVars
    \/ FoldProject /\ UNCHANGED <<sources, scrape_time>> /\ UNCHANGED loadVars
    \/ AppendTenant /\ UNCHANGED <<sources, scrape_time>> /\ UNCHANGED loadVars

Spec == Init /\ [][Next]_vars

----------------------------------------------------------------------------
\* The checkout handed to the constructor in repository mode.

TENANTS_DIRECTORY == "tenants"

Missing == [type |-> "missing"]

\* a file of the checkout: the YAML document it holds
YamlFile(value) == [type |-> "file", document |-> value]

\* yaml.load(contents)
YamlLoad(contents) == contents.document

\* os.path.join("tenants", tenant, file)
PathJoin(a, b, file) == <<a, b, file>>

SourcesFiles ==
    {Missing,
     YamlFile(Dict(<<>>)),
     YamlFile(Dict(<< <<"github", Dict(<< <<"config-project", List(<<Str("repo-a")>>)>> >>)>> >>))}

\* the orders in which tenants.keys() can list up to MaxDirs directories
Listings ==
    {ks \in SeqsUpTo(TenantNames, MaxDirs) :
        \A m, n \in 1..Len(ks) : m # n => ks[m] # ks[n]}

\* a checkout: its repo_name, what list_directory("tenants") gives (the listed
\* names in order, or CheckoutError) and the two files of each directory
Checkouts ==
    {[repo_name |-> id, listing |-> [raises |-> "CheckoutError"], files |-> <<>>] :
        id \in RepoIds}
    \cup UNION {
        {[repo_name |-> id, listing |-> [raises |-> "", keys |-> ks], files |-> fs] :
            id \in RepoIds,
            fs \in [{ks[n] : n \in 1..Len(ks)} ->
                      [sources : SourcesFiles, settings : {Missing}]
                      \cup [sources : SourcesFiles,
                            settings : {YamlFile(Dict(<< <<"name", Str(n)>> >>)) : n \in TenantNames}]]}
        : ks \in Listings}

\* sources_repo.list_directory(path): the entries, or CheckoutError
ListDirectoryOf(repo, path) ==
    IF path = "tenants" THEN repo.listing ELSE [raises |-> "CheckoutError"]

\* sources_repo.check_out_file(path): the contents, or CheckoutError
CheckOutFile(repo, path) ==
    LET f == IF path[3] = "sources.yaml"
             THEN repo.files[path[2]].sources
             ELSE repo.files[path[2]].settings
    IN  IF f = Missing
        THEN [raises |-> "CheckoutError"]
        ELSE [raises |-> "", contents |-> f]

\* d[k] = v on a dict
DictSet(d, k, v) ==
    IF HasKey(d, k)
    THEN Dict([n \in 1..Len(d.items) |->
                 IF d.items[n][1] = k THEN <<k, v>> ELSE d.items[n]])
    ELSE Dict(Append(d.items, <<k, v>>))

\* "...".format(*args): every "{}" field is replaced by the next argument and
\* every other piece of the string, "%s" included, is kept as it is
StrFormat(template, args) ==
    [n \in 1..Len(template) |->
        IF template[n] = "{}"
        THEN args[Cardinality({m \in 1..n : template[m] = "{}"})]
        ELSE template[n]]

\* the message given to ScraperConfigurationError
ConfigurationErrorMessage(repo) ==
    StrFormat(<<"Cannot load tenant sources. Repo '", "%s",
                "' does not contain a 'tenants' folder">>,
              <<repo.repo_name>>)

\* the body of the try block for one tenant directory: the files it checks
\* out, and the tenant_sources it builds or the CheckoutError it meets
LoadTenantSources(repo, name) ==
    LET sources_path == PathJoin("tenants", name, "sources.yaml")
        settings_path == PathJoin("tenants", name, "settings.yaml")
        sources_yaml == CheckOutFile(repo, sources_path)
        settings_yaml == CheckOutFile(repo, settings_path)
    IN  IF sources_yaml.raises # ""
        THEN [raises |-> sources_yaml.raises, reads |-> <<sources_path>>]
        ELSE IF settings_yaml.raises # ""
             THEN [raises |-> settings_yaml.raises,
                   reads |-> <<sources_path, settings_path>>]
             ELSE [raises |-> "",
                   reads |-> <<sources_path, settings_path>>,
                   tenant_sources |->
                       Dict(<< <<"tenant",
                                 DictSet(YamlLoad(settings_yaml.contents), "source",
                                         YamlLoad(sources_yaml.contents))>> >>)]

\* lines 95-101: list_directory("tenants") raises CheckoutError
ListDirectoryFails ==
    /\ lpc = "start"
    /\ ListDirectoryOf(sources_repo, TENANTS_DIRECTORY).raises # ""
    /\ error' = ConfigurationErrorMessage(sources_repo)
    /\ lpc' = "error"
    /\ UNCHANGED <<sources, sources_repo, t, checked_out, warnings>>

\* lines 95-96: list_directory("tenants") gives the tenant directories
ListDirectory ==
    /\ lpc = "start"
    /\ ListDirectoryOf(sources_repo, TENANTS_DIRECTORY).raises = ""
    /\ lpc' = "tenants"
    /\ t' = 1
    /\ UNCHANGED <<sources, sources_repo, checked_out, warnings, error>>

\* the try block around the whole loop: the first CheckoutError ends it
LoadTenantAborting ==
    /\ lpc = "tenants"
    /\ t <= Len(sources_repo.listing.keys)
    /\ LET name == sources_repo.listing.keys[t]
           res == LoadTenantSources(sources_repo, name)
       IN  /\ checked_out' = checked_out \o res.reads
           /\ IF res.raises = ""
              THEN /\ sources' = ListAppend(sources, res.tenant_sources)
                   /\ warnings' = warnings
                   /\ t' = t + 1
              ELSE /\ sources' = sources
                   /\ warnings' = Append(warnings, name)
                   /\ t' = Len(sources_repo.listing.keys) + 1
    /\ UNCHANGED <<sources_repo, lpc, error>>

\* lines 103-129: one pass of the loop over tenants.keys()
LoadTenant ==
    /\ lpc = "tenants"
    /\ t <= Len(sources_repo.listing.keys)
    /\ LET name == sources_repo.listing.keys[t]
           res == LoadTenantSources(sources_repo, name)
       IN  /\ checked_out' = checked_out \o res.reads
           /\ IF res.raises = ""
              THEN /\ sources' = ListAppend(sources, res.tenant_sources)
                   /\ warnings' = warnings
              ELSE /\ sources' = sources
                   /\ warnings' = Append(warnings, name)
    /\ t' = t + 1
    /\ UNCHANGED <<sources_repo, lpc, error>>

\* line 130 and lines 35-39: the loader returns and __init__ completes
ReturnSources ==
    /\ lpc = "tenants"
    /\ t > Len(sources_repo.listing.keys)
    /\ lpc' = "done"
    /\ UNCHANGED <<sources, sources_repo, t, checked_out, warnings, error>>

\* __init__ in repository mode, on entry to _load_tenant_sources_from_repo
InitLoad ==
    /\ sources_repo \in Checkouts
    /\ scrape_time \in ScrapeTimes
    /\ sources = <<>>
    /\ repo_map = <<>>
    /\ tenants = <<>>
    /\ pc = "idle"
    /\ i = 0
    /\ c = 0
    /\ p = 0
    /\ tenant = NoTenant
    /\ outcomes = <<>>
    /\ lpc = "start"
    /\ t = 0
    /\ checked_out = <<>>
    /\ warnings = <<>>
    /\ error = NoError

NextLoad ==
    \/ ListDirectoryFails /\ UNCHANGED scrape_time /\ UNCHANGED parseVars
    \/ ListDirectory /\ UNCHANGED scrape_time /\ UNCHANGED parseVars
    \/ LoadTenant /\ UNCHANGED scrape_time /\ UNCHANGED parseVars
    \/ ReturnSources /\ UNCHANGED scrape_time /\ UNCHANGED parseVars

SpecLoad == InitLoad /\ [][NextLoad]_vars

----------------------------------------------------------------------------
\* What the claims speak of.

\* the jobs and roles of a repository, empty while it has no entry
JobsOf(map, r) == IF r \in DOMAIN map THEN map[r].jobs ELSE <<>>

RolesOf(map, r) == IF r \in DOMAIN map THEN map[r].roles ELSE <<>>

Elements(xs) == {xs[n] : n \in 1..Len(xs)}

\* the ProjectRef the next FoldProject step folds, and its tenant
CurrentProject == ProjectsAt(GithubOf(sources[i]), c)[p]

CurrentName == NameOf(sources[i])

\* the ProjectRef of the spec: {r: {exclude: ["jobs"]}}
ExcludingJobs(r) == Dict(<< <<r, Dict(<< <<"exclude", List(<<"jobs">>)>> >>)>> >>)

\* the ProjectRefs of a record: every project type's list, one after the other
RECURSIVE ProjectsFrom(_, _)
ProjectsFrom(github_source, cc) ==
    IF cc > Len(github_source.items)
    THEN <<>>
    ELSE ProjectsAt(github_source, cc) \o ProjectsFrom(github_source, cc + 1)

AllProjects(tenant_src) ==
    IF Truthy(GithubOf(tenant_src)) THEN ProjectsFrom(GithubOf(tenant_src), 1) ELSE <<>>

\* the repository a ProjectRef names, "" if extracting it raises
ProjectNameOf(project) ==
    LET ex == ExtractProject(project) IN
    IF ex.raises = "" THEN ex.project_name ELSE ""

\* a ProjectRef whose fold raises nothing
Foldable(project) ==
    /\ project.type \in {"str", "dict"}
    /\ project.type = "dict" => Len(project.items) > 0
    /\ project.type = "dict" /\ HasKey(project, "exclude") =>
           DictGet(project, "exclude", NoneV).type \in {"list", "dict"}

\* a record parse() folds whole: its github source is there and not empty, and
\* each of its ProjectRefs folds
FoldableRecord(tenant_src) ==
    /\ Truthy(GithubOf(tenant_src))
    /\ \A n \in 1..Len(AllProjects(tenant_src)) : Foldable(AllProjects(tenant_src)[n])

\* what folding the ProjectRefs `projects` for a tenant adds to the roles (kind
\* "roles") or the jobs (kind "jobs") of repository r
RECURSIVE Entries(_, _, _, _)
Entries(kind, r, projects, name) ==
    IF projects = <<>>
    THEN <<>>
    ELSE LET ex == ExtractProject(Head(projects))
             hit == /\ ex.raises = ""
                    /\ ex.project_name = r
                    /\ kind = "jobs" => ~PyIn("jobs", ex.exclude)
         IN  (IF hit THEN <<name>> ELSE <<>>)
             \o Entries(kind, r, Tail(projects), name)

\* what folding the first n records adds to the roles or jobs of repository r
RECURSIVE Contribution(_, _, _)
Contribution(kind, r, n) ==
    IF n = 0
    THEN <<>>
    ELSE Contribution(kind, r, n - 1)
         \o Entries(kind, r, AllProjects(sources[n]), NameOf(sources[n]))

\* the tenants of the first n records
TenantsOfFirst(n) == [m \in 1..n |-> ZuulTenant(NameOf(sources[m]), scrape_time)]

RECURSIVE Repeat(_, _)
Repeat(xs, k) == IF k = 0 THEN <<>> ELSE xs \o Repeat(xs, k - 1)

RECURSIVE IsSubsequence(_, _)
IsSubsequence(xs, ys) ==
    IF xs = <<>> THEN TRUE
    ELSE IF ys = <<>> THEN FALSE
    ELSE IF Head(xs) = Head(ys) THEN IsSubsequence(Tail(xs), Tail(ys))
    ELSE IsSubsequence(xs, Tail(ys))

\* the first record whose source has no key github, 0 if every source has one
FirstLackingGithub ==
    LET lacking == {n \in 1..Len(sources) : ~HasKey(SourceOf(sources[n]), "github")}
    IN  IF lacking = {} THEN 0 ELSE CHOOSE n \in lacking : \A m \in lacking : n <= m

\* the first record whose github source is missing or empty, 0 if there is none
FirstWithoutGithub ==
    LET without == {n \in 1..Len(sources) : ~Truthy(GithubOf(sources[n]))}
    IN  IF without = {} THEN 0 ELSE CHOOSE n \in without : \A m \in without : n <= m

\* the first parse() call of the instance has returned, and no other was made
FirstCallReturned == pc = "idle" /\ outcomes = <<"returned">>

\* the first parse() call of the instance has raised, and no other was made
FirstCallRaised == pc = "idle" /\ outcomes = <<"raised">>

\* the map and the tenant list hold what the first n records contribute, once
HoldsFirst(n) ==
    /\ tenants = TenantsOfFirst(n)
    /\ \A r \in RepoNames :
          /\ JobsOf(repo_map, r) = Contribution("jobs", r, n)
          /\ RolesOf(repo_map, r) = Contribution("roles", r, n)
    /\ DOMAIN repo_map \subseteq RepoNames

----------------------------------------------------------------------------
\* C1: folding the ProjectRef {R: {exclude: ["jobs"]}} for tenant T leaves T
\* in the roles of R's entry and does not put T into its jobs.
C1_ExcludedFromJobs ==
    [][\A r \in RepoNames :
          pc = "projects" /\ CurrentProject = ExcludingJobs(r) =>
              /\ r \in DOMAIN repo_map'
              /\ CurrentName \in Elements(repo_map'[r].roles)
              /\ CurrentName \notin Elements(JobsOf(repo_map, r)) =>
                     CurrentName \notin Elements(repo_map'[r].jobs)]_vars

----------------------------------------------------------------------------
\* C6: folding a plain repository-name string R for tenant T creates R's entry
\* if it is absent, appends T to both its jobs and its roles, and leaves the
\* entries of the other repository names as they were.
C6_PlainStringFold ==
    [][\A r \in RepoNames :
          pc = "projects" /\ CurrentProject = Str(r) =>
              /\ r \in DOMAIN repo_map'
              /\ repo_map'[r].jobs = Append(JobsOf(repo_map, r), CurrentName)
              /\ repo_map'[r].roles = Append(RolesOf(repo_map, r), CurrentName)
              /\ CurrentName \in Elements(repo_map'[r].jobs)
              /\ CurrentName \in Elements(repo_map'[r].roles)
              /\ DOMAIN repo_map' = DOMAIN repo_map \cup {r}
              /\ \A q \in DOMAIN repo_map \ {r} : repo_map'[q] = repo_map[q]]_vars

\* C6 (witness): a plain string was just folded into an entry that held another tenant
C6_Witness ==
    /\ pc = "append"
    /\ i = 2
    /\ AllProjects(sources[2]) = <<Str("repo-b")>>
    /\ "repo-b" \in DOMAIN repo_map
    /\ "repo-a" \in DOMAIN repo_map
    /\ Len(repo_map["repo-b"].jobs) = 2
    /\ Len(repo_map["repo-b"].roles) = 2

----------------------------------------------------------------------------
\* C7: every fold that completes appends the tenant to the roles of the
\* repository's entry, whatever the exclusion list holds ("roles" included);
\* the exclusion list decides the append to jobs and nothing else.
C7_RolesUnconditional ==
    [][pc = "projects" /\ outcomes' = outcomes =>
          LET ex == ExtractProject(CurrentProject)
              r == ex.project_name
          IN  /\ r \in DOMAIN repo_map'
              /\ repo_map'[r].roles = Append(RolesOf(repo_map, r), CurrentName)
              /\ repo_map'[r].jobs =
                     IF PyIn("jobs", ex.exclude)
                     THEN JobsOf(repo_map, r)
                     ELSE Append(JobsOf(repo_map, r), CurrentName)
              /\ \A q \in DOMAIN repo_map \ {r} : repo_map'[q] = repo_map[q]]_vars

\* C7 (witness): a ProjectRef whose exclusion list holds "roles" was just folded
C7_Witness ==
    /\ pc = "append"
    /\ AllProjects(sources[i]) = <<Dict(<< <<"repo-a", NoneV>>, <<"exclude", List(<<"roles">>)>> >>)>>
    /\ "repo-a" \in DOMAIN repo_map
    /\ CurrentName \in Elements(repo_map["repo-a"].roles)
    /\ CurrentName \in Elements(repo_map["repo-a"].jobs)

----------------------------------------------------------------------------
----------------------------------------------------------------------------
\* C5: when every record references repository R once, as a plain string,
\* then after parse() the jobs and the roles of R's entry each hold one entry
\* per tenant, in the order in which the tenants were processed.
C5_OrderOfTenants ==
    \A r \in RepoNames :
        (/\ FirstCallReturned
         /\ \A n \in 1..Len(sources) :
               /\ Truthy(GithubOf(sources[n]))
               /\ \E m \in 1..Len(AllProjects(sources[n])) :
                     /\ AllProjects(sources[n])[m] = Str(r)
                     /\ \A k \in 1..Len(AllProjects(sources[n])) \ {m} :
                           ProjectNameOf(AllProjects(sources[n])[k]) # r) =>
            /\ JobsOf(repo_map, r) = [n \in 1..Len(sources) |-> NameOf(sources[n])]
            /\ RolesOf(repo_map, r) = [n \in 1..Len(sources) |-> NameOf(sources[n])]

\* C5 (witness): two different tenants referenced repo-a, and parse() has returned
C5_Witness ==
    /\ FirstCallReturned
    /\ Len(sources) = 2
    /\ NameOf(sources[1]) = "foo"
    /\ NameOf(sources[2]) = "bar"
    /\ AllProjects(sources[1]) = <<Str("repo-a"), Str("repo-b")>>
    /\ AllProjects(sources[2]) = <<Str("repo-a")>>
    /\ JobsOf(repo_map, "repo-a") = <<"foo", "bar">>
    /\ RolesOf(repo_map, "repo-a") = <<"foo", "bar">>

----------------------------------------------------------------------------
\* C8: in every reachable state, for every repository name in the map, jobs is
\* a subsequence of roles; roles is empty only for an entry that a fold created
\* and then failed on (an exclude value that is no container raises after
\* setdefault), and then jobs is empty too and the parse() call has raised.
C8_JobsWithinRoles ==
    \A r \in DOMAIN repo_map :
        /\ IsSubsequence(repo_map[r].jobs, repo_map[r].roles)
        /\ Len(repo_map[r].jobs) <= Len(repo_map[r].roles)
        /\ repo_map[r].roles = <<>> =>
               /\ repo_map[r].jobs = <<>>
               /\ "raised" \in Elements(outcomes)

\* C8 (as stated): roles is never empty for an existing entry
C8_Original ==
    \A r \in DOMAIN repo_map :
        /\ IsSubsequence(repo_map[r].jobs, repo_map[r].roles)
        /\ Len(repo_map[r].jobs) <= Len(repo_map[r].roles)
        /\ repo_map[r].roles # <<>>

\* C8 (witness): an entry whose jobs is a proper, non-empty part of its roles
C8_Witness ==
    /\ "repo-a" \in DOMAIN repo_map
    /\ repo_map["repo-a"].roles = <<"foo", "bar">>
    /\ repo_map["repo-a"].jobs = <<"bar">>

----------------------------------------------------------------------------
\* C9: the accumulators are never reset: after k parse() calls on one
\* instance over n foldable records the tenant list has k*n entries and every
\* jobs and roles sequence is the k-fold repetition of that of a single call.
C9_Accumulates ==
    (/\ pc = "idle"
     /\ \A n \in 1..Len(sources) : FoldableRecord(sources[n])) =>
        LET k == Len(outcomes)
            n == Len(sources)
        IN  /\ \A m \in 1..k : outcomes[m] = "returned"
            /\ Len(tenants) = k * n
            /\ tenants = Repeat(TenantsOfFirst(n), k)
            /\ \A r \in RepoNames :
                  /\ JobsOf(repo_map, r) = Repeat(Contribution("jobs", r, n), k)
                  /\ RolesOf(repo_map, r) = Repeat(Contribution("roles", r, n), k)

\* C9 (witness): a second call has returned and left everything twice
C9_Witness ==
    /\ pc = "idle"
    /\ outcomes = <<"returned", "returned">>
    /\ Len(sources) = 2
    /\ \A n \in 1..Len(sources) : FoldableRecord(sources[n])
    /\ Len(tenants) = 4
    /\ Len(RolesOf(repo_map, "repo-a")) = 4
    /\ Len(JobsOf(repo_map, "repo-a")) = 2

----------------------------------------------------------------------------
\* C10: when folding record i raises part-way through its ProjectRefs, the
\* map keeps every append made for the records before i and for the
\* ProjectRefs of record i folded before the failure, and the tenant list
\* holds only the tenants of the records before i.
C10_PartialUpdate ==
    FirstCallRaised =>
        LET before == ProjectsFrom([type |-> "dict",
                                    items |-> SubSeq(GithubOf(sources[i]).items, 1, c - 1)], 1)
                      \o SubSeq(ProjectsAt(GithubOf(sources[i]), c), 1, p - 1)
        IN  /\ tenants = TenantsOfFirst(i - 1)
            /\ Len(tenants) = i - 1
            /\ \A r \in RepoNames :
                  /\ JobsOf(repo_map, r) =
                         Contribution("jobs", r, i - 1) \o Entries("jobs", r, before, CurrentName)
                  /\ RolesOf(repo_map, r) =
                         Contribution("roles", r, i - 1) \o Entries("roles", r, before, CurrentName)
            /\ before # <<>> => \E r \in DOMAIN repo_map : CurrentName \in Elements(repo_map[r].roles)

\* C10 (witness): the second record failed on its second ProjectRef: its tenant is in the map
\* and not in the tenant list
C10_Witness ==
    /\ FirstCallRaised
    /\ i = 2
    /\ c = 2
    /\ NameOf(sources[1]) = "foo"
    /\ NameOf(sources[2]) = "bar"
    /\ Len(tenants) = 1
    /\ tenants[1].tenant_name = "foo"
    /\ \E r \in DOMAIN repo_map : "bar" \in Elements(repo_map[r].roles)

----------------------------------------------------------------------------
\* whether a message holds the name
Mentions(message, name) == \E n \in 1..Len(message) : message[n] = name

\* the directories of the listing whose two files can both be checked out
Readable(repo, name) ==
    /\ repo.files[name].sources # Missing
    /\ repo.files[name].settings # Missing

\* the record the two files of a directory merge into
Merged(repo, name) ==
    Dict(<< <<"tenant",
              Dict(Append(repo.files[name].settings.document.items,
                          <<"source", repo.files[name].sources.document>>))>> >>)

\* C3: when listing tenants/ fails with a checkout error, loading fails with
\* a configuration error whose message holds the checkout's repo_name, no
\* tenant file is read and no source list is produced.
C3_ErrorNamesRepository ==
    lpc = "error" =>
        /\ sources_repo.listing.raises = "CheckoutError"
        /\ Mentions(error, sources_repo.repo_name)
        /\ checked_out = <<>>
        /\ sources = <<>>

----------------------------------------------------------------------------
\* C4: a tenant directory for which checking out sources.yaml or
\* settings.yaml fails is absent from the returned source list, every other
\* directory is present exactly once, in the order of the listing, and the
\* load does not fail.
C4_SkipsUnreadableTenants ==
    sources_repo.listing.raises = "" =>
        /\ lpc # "error"
        /\ error = NoError
        /\ lpc = "done" =>
               LET keys == sources_repo.listing.keys
                   kept == SelectSeq(keys, LAMBDA name : Readable(sources_repo, name))
               IN  /\ sources = [n \in 1..Len(kept) |-> Merged(sources_repo, kept[n])]
                   /\ warnings = SelectSeq(keys, LAMBDA name : ~Readable(sources_repo, name))

\* C4 (witness): foo lacks sources.yaml and is skipped; bar, listed after it, is loaded
C4_Witness ==
    /\ lpc = "done"
    /\ sources_repo.listing.keys = <<"foo", "bar">>
    /\ sources_repo.files["foo"].sources = Missing
    /\ sources_repo.files["foo"].settings # Missing
    /\ Readable(sources_repo, "bar")
    /\ Len(sources) = 1
    /\ NameOf(sources[1]) = sources_repo.files["bar"].settings.document.items[1][2].s
    /\ warnings = <<"foo">>

====
